---- MODULE Spec2Model ----
(***************************************************************************)
(* Model of pyetltools: the context factory registry (core/context.py),    *)
(* the Netezza SQLAlchemy dialect (data/sqlalchemy/netezza_dialect.py)     *)
(* and gen_insert (tools/misc.py).                                         *)
(*                                                                         *)
(* Python values: None is the empty tuple, a present optional value x is   *)
(* <<x>>.  Python strings that the code builds or inspects character by    *)
(* character are sequences of one-character strings.                       *)
(***************************************************************************)
EXTENDS Integers, Sequences, FiniteSets, TLC

VARIABLES context_factory_map, registrations, tables, dbname, columns, args,
          result

vars == <<context_factory_map, registrations, tables, dbname, columns, args,
          result>>

\* Longest history of register_context_factory calls that is explored.
MaxRegistrations == 3

\* Longest column list handed to gen_insert and CreateTableAs.
MaxColumns == 2

\* Largest limit and offset of a select.
MaxLimit == 12

\* Most columns of the reflected table in _v_relation_column.
MaxRows == 2

None == <<>>

Some(x) == <<x>>

NoCall == [op |-> "none"]

(***************************************************************************)
(* core/context.py                                                         *)
(***************************************************************************)

ConfigTypes == {"DBConfig", "JiraConfig", "HgConfig"}

Factories == {"DBContext", "JiraContext", "HgContext"}

ConfigKeys == {"K1", "K2", "K3", "K4"}

\* The external configuration store: cm.get_config(key) -> Config.
cm_get_config(key) ==
    CASE key = "K1" -> [key |-> "K1", type |-> "DBConfig", password |-> None]
      [] key = "K2" -> [key |-> "K2", type |-> "DBConfig", password |-> Some("pw2")]
      [] key = "K3" -> [key |-> "K3", type |-> "JiraConfig", password |-> None]
      [] key = "K4" -> [key |-> "K4", type |-> "HgConfig", password |-> Some("pw4")]

\* The external secret store: cm.get_password(key) -> string.
cm_get_password(key) == [secret_of |-> key]

\* Context.__init__ as run by a factory's create_from_config(config).
create_from_config(factory, config) ==
    [cls |-> factory, config |-> config, config_key |-> config.key]

\* Context.get_password: the value returned and the secret-store keys read.
Context_get_password(config) ==
    IF config.password = None
    THEN [ret |-> Some(cm_get_password(config.key)), consulted |-> {config.key}]
    ELSE [ret |-> None, consulted |-> {}]

\* Faulty variant: keeps a factory that is already registered (dict.setdefault).
register_context_factory_setdefault(m, config_type, context_factory_type) ==
    [t \in (DOMAIN m) \cup {config_type} |->
        IF t \in DOMAIN m THEN m[t] ELSE context_factory_type]

\* register_context_factory: _context_factory_map[config_type] = factory.
register_context_factory(m, config_type, context_factory_type) ==
    [t \in (DOMAIN m) \cup {config_type} |->
        IF t = config_type THEN context_factory_type ELSE m[t]]

NotConfiguredMessage(type) == <<"Context factory for ", type, " not configured.">>

\* Faulty variant: a missing factory yields None instead of raising.
get_silent(m, config_key) ==
    LET config == cm_get_config(config_key) IN
    IF config.type \notin DOMAIN m
    THEN [raised |-> None, ret |-> None, invoked |-> {}]
    ELSE [raised |-> None,
          ret |-> Some(create_from_config(m[config.type], config)),
          invoked |-> {<<m[config.type], config.key>>}]

\* Faulty variant: the factory is taken from an arbitrary entry of the mapping.
get_any_factory(m, config_key) ==
    LET config == cm_get_config(config_key) IN
    IF config.type \notin DOMAIN m
    THEN [raised |-> Some(NotConfiguredMessage(config.type)),
          ret |-> None, invoked |-> {}]
    ELSE LET f == m[CHOOSE t \in DOMAIN m : TRUE] IN
         [raised |-> None,
          ret |-> Some(create_from_config(f, config)),
          invoked |-> {<<f, config.key>>}]

\* get(config_key): outcome of the call (exception, return value, factories run).
get(m, config_key) ==
    LET config == cm_get_config(config_key) IN
    IF config.type \notin DOMAIN m
    THEN [raised |-> Some(NotConfiguredMessage(config.type)),
          ret |-> None, invoked |-> {}]
    ELSE LET factory == m[config.type] IN
         [raised |-> None,
          ret |-> Some(create_from_config(factory, config)),
          invoked |-> {<<factory, config.key>>}]

InitRegistry ==
    /\ context_factory_map = <<>>
    /\ registrations = <<>>
    /\ tables = {}
    /\ dbname = "none"
    /\ columns = {}
    /\ args = NoCall
    /\ result = NoCall

Register ==
    \E config_type \in ConfigTypes, context_factory_type \in Factories :
        /\ Len(registrations) < MaxRegistrations
        /\ registrations' = Append(registrations,
                                   <<config_type, context_factory_type>>)
        /\ context_factory_map' =
              register_context_factory(context_factory_map, config_type,
                                       context_factory_type)
        /\ result' = [op |-> "register", config_type |-> config_type,
                      factory |-> context_factory_type]
        /\ UNCHANGED <<tables, dbname, columns, args>>

Get ==
    \E config_key \in ConfigKeys :
        /\ result' = [op |-> "get", config_key |-> config_key,
                      out |-> get(context_factory_map, config_key)]
        /\ UNCHANGED <<context_factory_map, registrations, tables, dbname, columns,
                       args>>

GetPassword ==
    \E config_key \in ConfigKeys :
        /\ result' = [op |-> "get_password", config |-> cm_get_config(config_key),
                      out |-> Context_get_password(cm_get_config(config_key))]
        /\ UNCHANGED <<context_factory_map, registrations, tables, dbname, columns,
                       args>>

NextRegistry == Register \/ Get \/ GetPassword

SpecRegistry == InitRegistry /\ [][NextRegistry]_vars

\* Positions in the registration history that registered config type t.
RegisteredAt(t) == {i \in 1..Len(registrations) : registrations[i][1] = t}

\* The factory of the most recent registration for config type t.
LastRegistered(t) ==
    registrations[CHOOSE i \in RegisteredAt(t) :
                      \A j \in RegisteredAt(t) : j <= i][2]

\* C1: after any sequence of registrations, get(key) for a Config whose type
\* T has a registration returns the object built by the factory most
\* recently registered for T from that same Config, and that factory is the
\* only one invoked.
C1_GetUsesLatestFactory ==
    (result.op = "get" /\ RegisteredAt(cm_get_config(result.config_key).type) # {})
    => LET config == cm_get_config(result.config_key)
           F == LastRegistered(config.type)
       IN /\ result.out.raised = None
          /\ result.out.ret = Some(create_from_config(F, config))
          /\ result.out.ret[1].cls = F
          /\ result.out.ret[1].config = config
          /\ result.out.invoked = {<<F, config.key>>}

\* C1 witness: a get served by a factory that replaced an earlier, different
\* registration for the same type while another type has its own factory.
C1_Witness ==
    /\ result.op = "get"
    /\ LET t == cm_get_config(result.config_key).type IN
       /\ Cardinality(RegisteredAt(t)) >= 2
       /\ \E i \in RegisteredAt(t) : registrations[i][2] # LastRegistered(t)
       /\ \E u \in DOMAIN context_factory_map :
             u # t /\ context_factory_map[u] # LastRegistered(t)
       /\ result.out.ret # None
       /\ result.out.ret[1].cls = LastRegistered(t)

\* C2: get(key) for a Config whose type was never registered raises the
\* "Context factory for <type> not configured." error naming that type,
\* invokes no factory and leaves the registry mapping unchanged.
C2_GetUnregisteredRaises ==
    [][(result'.op = "get"
        /\ RegisteredAt(cm_get_config(result'.config_key).type) = {})
       => /\ result'.out.raised =
                Some(<<"Context factory for ",
                       cm_get_config(result'.config_key).type,
                       " not configured.">>)
          /\ result'.out.ret = None
          /\ result'.out.invoked = {}
          /\ context_factory_map' = context_factory_map]_vars

\* C2 witness: a lookup miss while other types do have factories.
C2_Witness ==
    /\ result.op = "get"
    /\ result.out.raised # None
    /\ cm_get_config(result.config_key).type \notin DOMAIN context_factory_map
    /\ DOMAIN context_factory_map # {}

\* C3: register_context_factory(T, F) maps T to F whatever was there before,
\* leaves every other type's entry as it was, and a second call with the
\* same (T, F) leaves the registry as the first call left it.
C3_RegisterOverwrites ==
    [][(result'.op = "register" /\ registrations' # registrations)
       => LET T == result'.config_type
              F == result'.factory
          IN /\ T \in DOMAIN context_factory_map'
             /\ context_factory_map'[T] = F
             /\ DOMAIN context_factory_map' = DOMAIN context_factory_map \cup {T}
             /\ \A u \in DOMAIN context_factory_map :
                   u # T => context_factory_map'[u] = context_factory_map[u]
             /\ (Len(registrations) > 0
                 /\ registrations[Len(registrations)] = <<T, F>>)
                => context_factory_map' = context_factory_map]_vars

\* C3 witness: the same (T, F) registered twice in a row over an older,
\* different factory for T, with another type registered too.
C3_Witness ==
    /\ result.op = "register"
    /\ Len(registrations) = 3
    /\ registrations[1][1] # registrations[3][1]
    /\ registrations[2] = registrations[3]
    /\ DOMAIN context_factory_map = {registrations[1][1], registrations[3][1]}

\* C7: Context.get_password returns the inline password when one is set and
\* asks the secret store for the config key only when none is set.
C7_GetPasswordInlineFirst ==
    result.op = "get_password"
    => IF result.config.password # None
       THEN /\ result.out.ret = result.config.password
            /\ result.out.consulted = {}
       ELSE /\ result.out.ret = Some(cm_get_password(result.config.key))
            /\ result.out.consulted = {result.config.key}

(***************************************************************************)
(* Python string operations used by the SQL text builders                  *)
(***************************************************************************)

\* All sequences over S of length 0..n.
SeqsUpTo(S, n) == UNION {[1..k -> S] : k \in 0..n}

\* sep.join(parts)
RECURSIVE join(_, _)
join(sep, parts) ==
    IF parts = <<>> THEN <<>>
    ELSE IF Len(parts) = 1 THEN parts[1]
    ELSE parts[1] \o sep \o join(sep, Tail(parts))

UpperCase == <<"A","B","C","D","E","F","G","H","I","J","K","L","M","N","O",
               "P","Q","R","S","T","U","V","W","X","Y","Z">>

LowerCase == <<"a","b","c","d","e","f","g","h","i","j","k","l","m","n","o",
               "p","q","r","s","t","u","v","w","x","y","z">>

\* s.lower()
lower(s) ==
    [i \in 1..Len(s) |->
        IF \E k \in 1..26 : UpperCase[k] = s[i]
        THEN LowerCase[CHOOSE k \in 1..26 : UpperCase[k] = s[i]]
        ELSE s[i]]

Digits == <<"0","1","2","3","4","5","6","7","8","9">>

\* "{}".format(n) for an int n: its decimal digits.
RECURSIVE format_int(_)
format_int(n) ==
    IF n < 0 THEN <<"-">> \o format_int(-n)
    ELSE IF n < 10 THEN <<Digits[n + 1]>>
    ELSE format_int(n \div 10) \o <<Digits[(n % 10) + 1]>>

(***************************************************************************)
(* tools/misc.py                                                           *)
(***************************************************************************)

\* ["'"+i+"'" for i in columns]
quoted(cols) == [k \in 1..Len(cols) |-> <<"'">> \o cols[k] \o <<"'">>]

\* Faulty variant: the VALUES list holds one placeholder per column.
gen_insert_placeholders(tablename, cols) ==
    <<"i","n","s","e","r","t"," ","i","n","t","o"," ">> \o tablename \o <<
                                                                          " ",
                                                                          "(">> \o join(<<
                                                                                          ",",
                                                                                          "\n">>, quoted(cols))
    \o <<")"," ","v","a","l","u","e","s"," ","(">> \o join(<<",","\n">>, [k \in 1..Len(cols) |-> <<
                                                                                                   "?">>])
    \o <<")">>

\* gen_insert(tablename, columns)
gen_insert(tablename, cols) ==
    <<"i","n","s","e","r","t"," ","i","n","t","o"," ">> \o tablename \o <<
                                                                          " ",
                                                                          "(">> \o join(<<
                                                                                          ",",
                                                                                          "\n">>, quoted(cols))
    \o <<")"," ","v","a","l","u","e","s"," ","(">> \o join(<<",","\n">>, quoted(cols)) \o <<
                                                                                            ")">>

(***************************************************************************)
(* netezza_dialect.py: statement and DDL text                              *)
(***************************************************************************)

\* Faulty variant: the inherited clause, which binds limit and offset as parameters.
limit_clause_bound(select) ==
    LET text1 == IF select.limit # None
                 THEN <<" ","\n"," ","L","I","M","I","T"," ","?">>
                 ELSE <<>>
        text2 == IF select.offset # None
                 THEN (IF select.limit = None
                       THEN text1 \o <<" ","\n"," ","L","I","M","I","T"," ",
                                       "A","L","L">>
                       ELSE text1) \o <<" ","O","F","F","S","E","T"," ","?">>
                 ELSE text1
    IN text2

\* NetezzaCompiler.limit_clause(select)
limit_clause(select) ==
    LET text1 == IF select.limit # None
                 THEN <<" ","\n"," ","L","I","M","I","T"," ">> \o format_int(select.limit[1])
                 ELSE <<>>
        text2 == IF select.offset # None
                 THEN (IF select.limit = None
                       THEN text1 \o <<" ","\n"," ","L","I","M","I","T"," ",
                                       "A","L","L">>
                       ELSE text1)
                      \o <<" ","O","F","F","S","E","T"," ">> \o format_int(select.offset[1])
                 ELSE text1
    IN text2

\* A Python value given as distribute_on: a str, or a list or tuple of str.
PyStr(s) == [kind |-> "str", val |-> s]

PyList(l) == [kind |-> "list", val |-> l]

PyTuple(l) == [kind |-> "tuple", val |-> l]

\* CreateTableAs.distribute_clause: only str has .lower(); ','.join over a
\* str joins its characters.
distribute_clause(distribute_on) ==
    IF distribute_on.kind # "str"
    THEN [raised |-> Some("AttributeError"), ret |-> None]
    ELSE IF lower(distribute_on.val) # <<"r","a","n","d","o","m">>
    THEN [raised |-> None,
          ret |-> Some(<<"(">>
                       \o join(<<",">>, [k \in 1..Len(distribute_on.val) |->
                                          <<distribute_on.val[k]>>])
                       \o <<")">>)]
    ELSE [raised |-> None, ret |-> Some(<<"R","A","N","D","O","M">>)]

\* visit_create_table_as(element, compiler); element.selectable stands for
\* the text compiler.sql_compiler.process(element.selectable) returns.
visit_create_table_as(element) ==
    LET d == distribute_clause(element.distribute_on) IN
    IF d.raised # None
    THEN [raised |-> d.raised, ret |-> None]
    ELSE [raised |-> None,
          ret |-> Some(<<"\n"," "," "," "," "," "," "," "," ","C","R","E",
                         "A","T","E"," ">>
                       \o (IF element.temporary THEN <<"T","E","M","P">> ELSE <<>>)
                       \o <<" ","T","A","B","L","E"," ">> \o element.new_table_name
                       \o <<" ","A","S"," ","(","\n"," "," "," "," "," ",
                            " "," "," ">> \o element.selectable
                       \o <<"\n"," "," "," "," "," "," "," "," ",")"," ",
                            "D","I","S","T","R","I","B","U","T","E"," ","O",
                            "N"," ">> \o d.ret[1]
                       \o <<"\n"," "," "," "," ">>)]

ColumnNameStrs == { <<"a">>, <<"b">>, <<"i","d">> }

TableNameStrs == { <<"t">>, <<"t","a","b">> }

OptInts == {None} \cup {Some(n) : n \in 0..MaxLimit}

DistributeOns ==
    {PyStr(s) : s \in { <<"r","a","n","d","o","m">>, <<"R","A","N","D","O",
                                                       "M">>, <<"R","a","n",
                                                                "d","o","m">>, <<
                                                                                 "a">>, <<
                                                                                          "a",
                                                                                          "b">>,
                        <<"i","d">> }}
    \cup {PyList(l) : l \in SeqsUpTo(ColumnNameStrs, MaxColumns)}
    \cup {PyTuple(l) : l \in SeqsUpTo(ColumnNameStrs, MaxColumns)}

SqlArgs ==
    {[op |-> "gen_insert", tablename |-> t, columns |-> c] :
        t \in TableNameStrs, c \in SeqsUpTo(ColumnNameStrs, MaxColumns)}
    \cup {[op |-> "limit_clause", limit |-> l, offset |-> o] :
            l \in OptInts, o \in OptInts}
    \cup {[op |-> "create_table_as", new_table_name |-> <<"t","2">>,
           selectable |-> <<"S","E","L","E","C","T"," ","a",","," ","b"," ",
                            "F","R","O","M"," ","t">>, temporary |-> tmp,
           distribute_on |-> d] : tmp \in BOOLEAN, d \in DistributeOns}

InitSql ==
    /\ context_factory_map = <<>>
    /\ registrations = <<>>
    /\ tables = {}
    /\ dbname = "none"
    /\ columns = {}
    /\ args \in SqlArgs
    /\ result = NoCall

GenInsert ==
    /\ args.op = "gen_insert"
    /\ result = NoCall
    /\ result' = [op |-> "gen_insert",
                  ret |-> gen_insert(args.tablename, args.columns)]
    /\ UNCHANGED <<context_factory_map, registrations, tables, dbname,
                   columns, args>>

LimitClause ==
    /\ args.op = "limit_clause"
    /\ result = NoCall
    /\ result' = [op |-> "limit_clause", ret |-> limit_clause(args)]
    /\ UNCHANGED <<context_factory_map, registrations, tables, dbname,
                   columns, args>>

CompileCreateTableAs ==
    /\ args.op = "create_table_as"
    /\ result = NoCall
    /\ result' = [op |-> "create_table_as",
                  clause |-> distribute_clause(args.distribute_on),
                  out |-> visit_create_table_as(args)]
    /\ UNCHANGED <<context_factory_map, registrations, tables, dbname,
                   columns, args>>

NextSql == GenInsert \/ LimitClause \/ CompileCreateTableAs

SpecSql == InitSql /\ [][NextSql]_vars

\* text contains sub as a contiguous piece.
Contains(text, sub) ==
    \E i \in 0..(Len(text) - Len(sub)) : SubSeq(text, i + 1, i + Len(sub)) = sub

\* Start of the first occurrence of sub in text (0 when there is none).
IndexOf(text, sub) ==
    IF Contains(text, sub)
    THEN CHOOSE i \in 1..Len(text) :
            /\ SubSeq(text, i, i + Len(sub) - 1) = sub
            /\ \A j \in 1..(i - 1) : SubSeq(text, j, j + Len(sub) - 1) # sub
    ELSE 0

IsDigit(c) == \E k \in 1..10 : Digits[k] = c

DigitValue(c) == (CHOOSE k \in 1..10 : Digits[k] = c) - 1

\* The number written in decimal by a sequence of digits.
RECURSIVE ParseDigits(_)
ParseDigits(s) ==
    IF s = <<>> THEN 0
    ELSE 10 * ParseDigits(SubSeq(s, 1, Len(s) - 1)) + DigitValue(s[Len(s)])

\* The integer literal that follows the first occurrence of keyword in text,
\* read up to the first non-digit; -1 when no digit follows.
IntAfter(text, keyword) ==
    LET from == IndexOf(text, keyword) + Len(keyword)
        rest == SubSeq(text, from, Len(text))
        n == CHOOSE k \in 0..Len(rest) :
                /\ \A i \in 1..k : IsDigit(rest[i])
                /\ k < Len(rest) => ~IsDigit(rest[k + 1])
    IN IF IndexOf(text, keyword) = 0 \/ n = 0 THEN -1
       ELSE ParseDigits(SubSeq(rest, 1, n))

\* The names in a list of single-quoted names separated by a comma and a
\* newline; a text of another shape reads as a list no input equals.
RECURSIVE ParseQuotedList(_)
ParseQuotedList(l) ==
    IF l = <<>> THEN <<>>
    ELSE IF l[1] # "'" \/ ~(\E j \in 2..Len(l) : l[j] = "'")
    THEN << <<"malformed">> >>
    ELSE LET j == CHOOSE j \in 2..Len(l) :
                    l[j] = "'" /\ \A i \in 2..(j - 1) : l[i] # "'"
             item == SubSeq(l, 2, j - 1)
             rest == SubSeq(l, j + 1, Len(l))
         IN IF rest = <<>> THEN <<item>>
            ELSE IF Len(rest) > 2 /\ SubSeq(rest, 1, 2) = <<",","\n">>
            THEN <<item>> \o ParseQuotedList(SubSeq(rest, 3, Len(rest)))
            ELSE << <<"malformed">> >>

\* C4: the distribute clause of CREATE TABLE AS is the given column names
\* joined by commas inside parentheses when distribute_on is a column list,
\* and RANDOM when distribute_on is "random"; visit_create_table_as emits it
\* after DISTRIBUTE ON.
C4_DistributeClause ==
    result.op = "create_table_as"
    => LET d == args.distribute_on
           expected == IF d.kind = "str" THEN <<"R","A","N","D","O","M">>
                       ELSE <<"(">> \o join(<<",">>, d.val) \o <<")">>
       IN (d = PyStr(<<"r","a","n","d","o","m">>) \/ (d.kind # "str" /\ d.val # <<>>))
          => /\ result.clause.raised = None
             /\ result.clause.ret = Some(expected)
             /\ result.out.raised = None
             /\ Contains(result.out.ret[1], <<"D","I","S","T","R","I","B",
                                              "U","T","E"," ","O","N"," ">> \o expected)

\* C8: limit_clause writes limit and offset as integer literals and no bound
\* parameter: LIMIT <limit> when a limit is set, LIMIT ALL before
\* OFFSET <offset> when only an offset is set, no OFFSET without an offset,
\* the empty string with neither; limit 10 and offset 5 give "LIMIT 10" and
\* "OFFSET 5".
C8_LimitClauseLiterals ==
    result.op = "limit_clause"
    => LET text == result.ret
           l == args.limit
           o == args.offset
       IN /\ \A i \in 1..Len(text) : text[i] \notin {"?", ":", "%"}
          /\ l # None => /\ IntAfter(text, <<"L","I","M","I","T"," ">>) = l[1]
                         /\ ~Contains(text, <<"L","I","M","I","T"," ","A",
                                              "L","L">>)
          /\ o # None => /\ IntAfter(text, <<"O","F","F","S","E","T"," ">>) = o[1]
                         /\ IndexOf(text, <<"L","I","M","I","T"," ">>) > 0
                         /\ IndexOf(text, <<"L","I","M","I","T"," ">>) < IndexOf(text, <<
                                                                                         "O",
                                                                                         "F",
                                                                                         "F",
                                                                                         "S",
                                                                                         "E",
                                                                                         "T",
                                                                                         " ">>)
          /\ (l = None /\ o # None)
             => /\ Contains(text, <<"L","I","M","I","T"," ","A","L","L">>)
                /\ IndexOf(text, <<"L","I","M","I","T"," ","A","L","L">>) < IndexOf(text, <<
                                                                                            "O",
                                                                                            "F",
                                                                                            "F",
                                                                                            "S",
                                                                                            "E",
                                                                                            "T",
                                                                                            " ">>)
          /\ o = None => ~Contains(text, <<"O","F","F","S","E","T">>)
          /\ (l = None /\ o = None) => text = <<>>
          /\ (l = Some(10) /\ o = Some(5))
             => /\ Contains(text, <<"L","I","M","I","T"," ","1","0">>)
                /\ Contains(text, <<"O","F","F","S","E","T"," ","5">>)

\* C8 witness: the clause for limit 10, offset 5.
C8_Witness ==
    /\ result.op = "limit_clause"
    /\ args.limit = Some(10)
    /\ args.offset = Some(5)
    /\ result.ret = <<" ","\n"," ","L","I","M","I","T"," ","1","0"," ","O",
                      "F","F","S","E","T"," ","5">>

\* C10: gen_insert returns "insert into <tablename> (", the column names each
\* in single quotes joined by a comma and a newline, ") values (", the same
\* list again, and ")"; both lists read back as the input columns in order,
\* and gen_insert("t", ["a","b"]) contains "insert into t ('a',\n'b')".
C10_GenInsertText ==
    result.op = "gen_insert"
    => LET r == result.ret
           head == <<"i","n","s","e","r","t"," ","i","n","t","o"," ">> \o args.tablename \o <<
                                                                                              " ",
                                                                                              "(">>
           mid == <<")"," ","v","a","l","u","e","s"," ","(">>
           n == (Len(r) - Len(head) - Len(mid) - 1) \div 2
           list1 == SubSeq(r, Len(head) + 1, Len(head) + n)
           list2 == SubSeq(r, Len(head) + n + Len(mid) + 1, Len(r) - 1)
       IN /\ Len(r) = Len(head) + Len(mid) + 1 + 2 * n
          /\ SubSeq(r, 1, Len(head)) = head
          /\ SubSeq(r, Len(head) + n + 1, Len(head) + n + Len(mid)) = mid
          /\ r[Len(r)] = ")"
          /\ list1 = list2
          /\ ParseQuotedList(list1) = args.columns
          /\ (args.tablename = <<"t">> /\ args.columns = << <<"a">>, <<"b">> >>)
             => Contains(r, <<"i","n","s","e","r","t"," ","i","n","t","o",
                              " ","t"," ","(","'","a","'",",","\n","'","b",
                              "'",")">>)

\* C10 witness: gen_insert("t", ["a","b"]).
C10_Witness ==
    /\ result.op = "gen_insert"
    /\ args.tablename = <<"t">>
    /\ args.columns = << <<"a">>, <<"b">> >>
    /\ result.ret = <<"i","n","s","e","r","t"," ","i","n","t","o"," ","t",
                      " ","(","'","a","'",",","\n","'","b","'",")"," ","v",
                      "a","l","u","e","s"," ","(","'","a","'",",","\n","'",
                      "b","'",")">>

(***************************************************************************)
(* netezza_dialect.py: reflection against the system catalog               *)
(***************************************************************************)

Databases == {"DB1", "DB2"}

Schemas == {"DBO", "ADMIN"}

TableNames == {"T1", "T2"}

\* Object ids are unique across the appliance.
ObjId(db, schema, name) ==
    1000 + (IF db = "DB1" THEN 0 ELSE 100) + (IF schema = "DBO" THEN 0 ELSE 10)
         + (IF name = "T1" THEN 1 ELSE 2)

TableUniverse ==
    {[objid |-> ObjId(db, sch, n), dbname |-> db, schema |-> sch,
      objname |-> n] : db \in Databases, sch \in Schemas, n \in TableNames}

\* _v_object_data lists the objects of every database, with their dbname.
v_object_data(tbls) == tbls

\* _V_TABLE lists the tables of the database the connection is in.
v_table(tbls, db) == {t \in tbls : t.dbname = db}

\* NetezzaODBC.has_table: bool(select count(*) ... objname = ? and dbname = ?);
\* the schema argument is not used.
has_table(tbls, db, tablename, schema) ==
    Cardinality({o \in v_object_data(tbls) :
                    o.objname = tablename /\ o.dbname = db}) # 0

\* The rows of get_table_oid's query.
get_table_oid_rows(tbls, db, table_name, schema) ==
    {t \in v_table(tbls, db) :
        /\ schema # None => t.schema = schema[1]
        /\ t.objname = table_name}

\* Faulty variant: a miss returns None instead of raising.
get_table_oid_no_raise(tbls, db, table_name, schema) ==
    LET rows == get_table_oid_rows(tbls, db, table_name, schema) IN
    IF rows = {}
    THEN {[raised |-> None, ret |-> None]}
    ELSE {[raised |-> None, ret |-> Some(r.objid)] : r \in rows}

\* NetezzaODBC.get_table_oid: the possible outcomes; c.scalar() is the first
\* column of the first row, in whatever order the rows come, or None.
get_table_oid(tbls, db, table_name, schema) ==
    LET rows == get_table_oid_rows(tbls, db, table_name, schema) IN
    IF rows = {}
    THEN {[raised |-> Some(<<"NoSuchTableError", table_name>>), ret |-> None]}
    ELSE {[raised |-> None, ret |-> Some(r.objid)] : r \in rows}

OptSchemas == {None} \cup {Some(sch) : sch \in Schemas}

InitCatalog ==
    /\ context_factory_map = <<>>
    /\ registrations = <<>>
    /\ tables \in SUBSET TableUniverse
    /\ dbname \in Databases
    /\ columns = {}
    /\ args = NoCall
    /\ result = NoCall

HasTable ==
    \E tablename \in TableNames, schema \in OptSchemas :
        /\ result' = [op |-> "has_table", tablename |-> tablename,
                      schema |-> schema,
                      ret |-> has_table(tables, dbname, tablename, schema)]
        /\ UNCHANGED <<context_factory_map, registrations, tables, dbname,
                       columns, args>>

GetTableOid ==
    \E table_name \in TableNames, schema \in OptSchemas :
        \E out \in get_table_oid(tables, dbname, table_name, schema) :
            /\ result' = [op |-> "get_table_oid", tablename |-> table_name,
                          schema |-> schema, out |-> out]
            /\ UNCHANGED <<context_factory_map, registrations, tables, dbname,
                           columns, args>>

NextCatalog == HasTable \/ GetTableOid

SpecCatalog == InitCatalog /\ [][NextCatalog]_vars

\* The tables of the connected database with the requested name and schema.
TablesNamed(tablename, schema) ==
    {t \in tables : /\ t.dbname = dbname
                    /\ t.objname = tablename
                    /\ schema # None => t.schema = schema[1]}

\* C6: has_table and get_table_oid are scoped by database and by schema: for
\* a table name found only in another database, or only in a schema other
\* than the requested one, has_table is false and get_table_oid does not
\* return that table's id.
C6_LookupScopedByDbAndSchema ==
    /\ (result.op = "has_table" /\ result.schema # None
        /\ TablesNamed(result.tablename, result.schema) = {})
       => result.ret = FALSE
    /\ (result.op = "get_table_oid" /\ result.schema # None
        /\ result.out.ret # None)
       => \E t \in TablesNamed(result.tablename, result.schema) :
             result.out.ret = Some(t.objid)

\* C9: get_table_oid raises NoSuchTableError carrying the table name exactly
\* when no table of the requested name (and schema, when one is given) is
\* found, and otherwise returns the id of a matching table.
C9_NoSuchTableOnMiss ==
    result.op = "get_table_oid"
    => LET found == TablesNamed(result.tablename, result.schema) IN
       /\ (result.out.raised # None) <=> (found = {})
       /\ found = {}
          => /\ result.out.raised =
                   Some(<<"NoSuchTableError", result.tablename>>)
             /\ result.out.ret = None
       /\ found # {}
          => \E t \in found : result.out.ret = Some(t.objid)

\* C9 witness: a miss for a name that exists in another database and in
\* another schema of this one.
C9_Witness ==
    /\ result.op = "get_table_oid"
    /\ result.schema # None
    /\ result.out.raised = Some(<<"NoSuchTableError", result.tablename>>)
    /\ \E t \in tables : t.objname = result.tablename /\ t.dbname # dbname
    /\ \E t \in tables : /\ t.objname = result.tablename
                         /\ t.dbname = dbname
                         /\ t.schema # result.schema[1]

\* Maps type ids to sqlalchemy types, plus whether they have variable precision.
oid_datatype_map ==
    (16 :> <<"sqltypes.Boolean", FALSE>>)
    @@ (18 :> <<"sqltypes.CHAR", FALSE>>)
    @@ (19 :> <<"NAME", FALSE>>)
    @@ (20 :> <<"sqltypes.BigInteger", FALSE>>)
    @@ (21 :> <<"sqltypes.SmallInteger", FALSE>>)
    @@ (23 :> <<"sqltypes.Integer", FALSE>>)
    @@ (25 :> <<"sqltypes.TEXT", FALSE>>)
    @@ (26 :> <<"OID", FALSE>>)
    @@ (700 :> <<"sqltypes.REAL", FALSE>>)
    @@ (701 :> <<"DOUBLE_PRECISION", FALSE>>)
    @@ (702 :> <<"ABSTIME", FALSE>>)
    @@ (1042 :> <<"sqltypes.CHAR", TRUE>>)
    @@ (1043 :> <<"sqltypes.String", TRUE>>)
    @@ (1082 :> <<"sqltypes.Date", FALSE>>)
    @@ (1083 :> <<"TIME", FALSE>>)
    @@ (1184 :> <<"TIMESTAMP", FALSE>>)
    @@ (1186 :> <<"INTERVAL", FALSE>>)
    @@ (1266 :> <<"TIMESTAMP", FALSE>>)
    @@ (1700 :> <<"sqltypes.Numeric", FALSE>>)
    @@ (2500 :> <<"BYTEINT", FALSE>>)
    @@ (2522 :> <<"sqltypes.NCHAR", TRUE>>)
    @@ (2530 :> <<"sqltypes.NVARCHAR", TRUE>>)
    @@ (2552 :> <<"ST_GEOMETRY", TRUE>>)
    @@ (2568 :> <<"sqltypes.VARBINARY", TRUE>>)

\* The name the catalog prints for a type id in format_type.
TypeName(typeid) ==
    CASE typeid = 16 -> <<"B","O","O","L","E","A","N">>
      [] typeid = 18 -> <<"\"","C","H","A","R","\"">>
      [] typeid = 19 -> <<"N","A","M","E">>
      [] typeid = 20 -> <<"B","I","G","I","N","T">>
      [] typeid = 21 -> <<"S","M","A","L","L","I","N","T">>
      [] typeid = 23 -> <<"I","N","T","E","G","E","R">>
      [] typeid = 25 -> <<"T","E","X","T">>
      [] typeid = 26 -> <<"O","I","D">>
      [] typeid = 700 -> <<"R","E","A","L">>
      [] typeid = 701 -> <<"D","O","U","B","L","E"," ","P","R","E","C","I",
                           "S","I","O","N">>
      [] typeid = 702 -> <<"A","B","S","T","I","M","E">>
      [] typeid = 1042 -> <<"C","H","A","R","A","C","T","E","R">>
      [] typeid = 1043 -> <<"C","H","A","R","A","C","T","E","R"," ","V","A",
                            "R","Y","I","N","G">>
      [] typeid = 1082 -> <<"D","A","T","E">>
      [] typeid = 1083 -> <<"T","I","M","E">>
      [] typeid = 1184 -> <<"T","I","M","E","S","T","A","M","P">>
      [] typeid = 1186 -> <<"I","N","T","E","R","V","A","L">>
      [] typeid = 1266 -> <<"T","I","M","E"," ","W","I","T","H"," ","T","I",
                            "M","E"," ","Z","O","N","E">>
      [] typeid = 1700 -> <<"N","U","M","E","R","I","C">>
      [] typeid = 2500 -> <<"B","Y","T","E","I","N","T">>
      [] typeid = 2522 -> <<"N","A","T","I","O","N","A","L"," ","C","H","A",
                            "R","A","C","T","E","R">>
      [] typeid = 2530 -> <<"N","A","T","I","O","N","A","L"," ","C","H","A",
                            "R","A","C","T","E","R"," ","V","A","R","Y","I",
                            "N","G">>
      [] typeid = 2552 -> <<"S","T","_","G","E","O","M","E","T","R","Y">>
      [] typeid = 2568 -> <<"B","I","N","A","R","Y"," ","V","A","R","Y","I",
                            "N","G">>
      [] OTHER -> <<"B","Y","T","E","A">>

\* format_type as the catalog prints it: NUMERIC(p,s) for a numeric column,
\* NAME(n) for a type with a length, else the bare type name.
catalog_format_type(typeid, length, precision, scale) ==
    IF typeid = 1700
    THEN TypeName(typeid) \o <<"(">> \o format_int(precision) \o <<",">>
         \o format_int(scale) \o <<")">>
    ELSE IF typeid \in DOMAIN oid_datatype_map /\ oid_datatype_map[typeid][2]
    THEN TypeName(typeid) \o <<"(">> \o format_int(length) \o <<")">>
    ELSE TypeName(typeid)

\* The length of the longest run of digits at the start of s.
DigitRun(s) ==
    CHOOSE k \in 0..Len(s) :
        /\ \A i \in 1..k : IsDigit(s[i])
        /\ k < Len(s) => ~IsDigit(s[k + 1])

\* re.match(r'numeric\((\d+),(\d+)\)', s): None, or the two groups.
re_match_numeric(s) ==
    LET open == <<"n","u","m","e","r","i","c","(">>
        rest1 == SubSeq(s, Len(open) + 1, Len(s))
        n1 == DigitRun(rest1)
        rest2 == SubSeq(rest1, n1 + 2, Len(rest1))
        n2 == DigitRun(rest2)
    IN IF /\ Len(s) >= Len(open)
          /\ SubSeq(s, 1, Len(open)) = open
          /\ n1 >= 1
          /\ Len(rest1) > n1
          /\ rest1[n1 + 1] = ","
          /\ n2 >= 1
          /\ Len(rest2) > n2
          /\ rest2[n2 + 1] = ")"
       THEN Some(<<SubSeq(rest1, 1, n1), SubSeq(rest2, 1, n2)>>)
       ELSE None

\* The rows of SQL_COLS: the columns of schema.tablename ordered by attnum,
\* each as (name, typeid, nullable, length, format_type).
RECURSIVE OrderByAttnum(_)
OrderByAttnum(rows) ==
    IF rows = {} THEN <<>>
    ELSE LET first == CHOOSE r \in rows : \A q \in rows : r.attnum <= q.attnum
         IN <<first>> \o OrderByAttnum(rows \ {first})

sql_cols(relation_column, tablename, schema) ==
    LET sorted == OrderByAttnum({a \in relation_column :
                                    a.name = tablename /\ a.schema = schema})
    IN [k \in 1..Len(sorted) |->
          [name |-> sorted[k].attname,
           typeid |-> sorted[k].atttypid,
           nullable |-> ~sorted[k].attnotnull,
           length |-> sorted[k].attcolleng,
           format_type |-> sorted[k].format_type]]

\* NetezzaODBC._get_default_schema_name
default_schema_name == "DBO"

\* Faulty variant: the pattern is matched against format_type as the catalog cases it.
column_type_case_sensitive(row) ==
    IF row.typeid \notin DOMAIN oid_datatype_map
    THEN [raised |-> Some("KeyError"), ret |-> None]
    ELSE LET coltype_class == oid_datatype_map[row.typeid][1]
             has_length == oid_datatype_map[row.typeid][2]
         IN IF coltype_class = "sqltypes.Numeric"
            THEN LET m == re_match_numeric(row.format_type) IN
                 IF m = None
                 THEN [raised |-> Some("AttributeError"), ret |-> None]
                 ELSE [raised |-> None,
                       ret |-> Some([cls |-> coltype_class,
                                     args |-> <<ParseDigits(m[1][1]),
                                                ParseDigits(m[1][2])>>])]
            ELSE IF has_length
            THEN [raised |-> None,
                  ret |-> Some([cls |-> coltype_class,
                                args |-> <<row.length>>])]
            ELSE [raised |-> None,
                  ret |-> Some([cls |-> coltype_class, args |-> <<>>])]

\* The body of get_columns' loop up to coltype: the type instance built for
\* one row, or the exception the lookup or the pattern match raises.
column_type(row) ==
    IF row.typeid \notin DOMAIN oid_datatype_map
    THEN [raised |-> Some("KeyError"), ret |-> None]
    ELSE LET coltype_class == oid_datatype_map[row.typeid][1]
             has_length == oid_datatype_map[row.typeid][2]
         IN IF coltype_class = "sqltypes.Numeric"
            THEN LET m == re_match_numeric(lower(row.format_type)) IN
                 IF m = None
                 THEN [raised |-> Some("AttributeError"), ret |-> None]
                 ELSE [raised |-> None,
                       ret |-> Some([cls |-> coltype_class,
                                     args |-> <<ParseDigits(m[1][1]),
                                                ParseDigits(m[1][2])>>])]
            ELSE IF has_length
            THEN [raised |-> None,
                  ret |-> Some([cls |-> coltype_class,
                                args |-> <<row.length>>])]
            ELSE [raised |-> None,
                  ret |-> Some([cls |-> coltype_class, args |-> <<>>])]

\* NetezzaODBC.get_columns
get_columns(relation_column, table_name, schema) ==
    LET rows == sql_cols(relation_column, table_name,
                         IF schema # None THEN schema[1]
                         ELSE default_schema_name)
        types == [k \in 1..Len(rows) |-> column_type(rows[k])]
        failed == {k \in 1..Len(rows) : types[k].raised # None}
    IN IF failed # {}
       THEN [raised |-> types[CHOOSE k \in failed :
                                 \A j \in failed : k <= j].raised,
             ret |-> None]
       ELSE [raised |-> None,
             ret |-> Some([k \in 1..Len(rows) |->
                             [name |-> rows[k].name,
                              type |-> types[k].ret[1],
                              nullable |-> rows[k].nullable]])]

\* Precision and scale of the numeric columns in the catalog.
NumericShapes == {<<10, 2>>, <<38, 0>>}

\* The columns a table can have: one per type id and nullability, numeric
\* ones in each shape; 17 (bytea) is a type id oid_datatype_map does not list.
ColumnKinds ==
    {[atttypid |-> id, attnotnull |-> nn,
      attcolleng |-> IF id \in {1043, 2530} THEN 20 ELSE 8,
      precision |-> ps[1], scale |-> ps[2]] :
        id \in (DOMAIN oid_datatype_map) \cup {17},
        nn \in BOOLEAN, ps \in {<<10, 2>>}}
    \cup {[atttypid |-> 1700, attnotnull |-> nn, attcolleng |-> 8,
           precision |-> ps[1], scale |-> ps[2]] :
            nn \in BOOLEAN, ps \in NumericShapes}

ColumnNames == <<"ID", "AMOUNT", "NOTE", "CREATED">>

\* _v_relation_column rows of table T1 in schema sch with the given columns;
\* attnum is the column's position in the table.
RelationColumns(sch, kinds) ==
    {[name |-> "T1", schema |-> sch, attnum |-> k,
      attname |-> ColumnNames[k],
      atttypid |-> kinds[k].atttypid,
      attnotnull |-> kinds[k].attnotnull,
      attcolleng |-> kinds[k].attcolleng,
      precision |-> kinds[k].precision,
      scale |-> kinds[k].scale,
      format_type |-> catalog_format_type(kinds[k].atttypid,
                                          kinds[k].attcolleng,
                                          kinds[k].precision,
                                          kinds[k].scale)] :
        k \in 1..Len(kinds)}

\* Columns of other relations, which the query must leave out.
OtherColumns ==
    {[name |-> "T2", schema |-> "DBO", attnum |-> 1, attname |-> "X",
      atttypid |-> 23, attnotnull |-> TRUE, attcolleng |-> 4,
      precision |-> 10, scale |-> 2,
      format_type |-> catalog_format_type(23, 4, 10, 2)]}

InitColumns ==
    /\ context_factory_map = <<>>
    /\ registrations = <<>>
    /\ tables = {}
    /\ dbname \in {"DB1"}
    /\ \E sch \in Schemas, kinds \in SeqsUpTo(ColumnKinds, MaxRows) :
          columns = RelationColumns(sch, kinds) \cup OtherColumns
    /\ args \in {[op |-> "get_columns", table_name |-> "T1", schema |-> sch] :
                    sch \in {None, Some("ADMIN")}}
    /\ result = NoCall

GetColumns ==
    /\ args.op = "get_columns"
    /\ result = NoCall
    /\ result' = [op |-> "get_columns",
                  out |-> get_columns(columns, args.table_name, args.schema)]
    /\ UNCHANGED <<context_factory_map, registrations, tables, dbname,
                   columns, args>>

NextColumns == GetColumns

SpecColumns == InitColumns /\ [][NextColumns]_vars

\* The catalog rows of the table get_columns was asked about.
RequestedColumns ==
    {a \in columns :
        /\ a.name = args.table_name
        /\ a.schema = (IF args.schema # None THEN args.schema[1] ELSE "DBO")}

\* C5: when every column of the reflected table has a type id listed in
\* oid_datatype_map, get_columns does not fail and returns one descriptor
\* {name, type, nullable} per column in attnum order; its type is an
\* instance of the class the map gives for the type id, built from
\* precision and scale for Numeric, from the column length when the map
\* flags a length, and without arguments otherwise.
C5_ColumnsOfMappedTypes ==
    (result.op = "get_columns"
     /\ \A a \in RequestedColumns : a.atttypid \in DOMAIN oid_datatype_map)
    => /\ result.out.raised = None
       /\ Len(result.out.ret[1]) = Cardinality(RequestedColumns)
       /\ \A a \in RequestedColumns :
             LET k == Cardinality({b \in RequestedColumns :
                                      b.attnum <= a.attnum})
                 col == result.out.ret[1][k]
                 entry == oid_datatype_map[a.atttypid]
             IN /\ DOMAIN col = {"name", "type", "nullable"}
                /\ col.name = a.attname
                /\ col.nullable = ~a.attnotnull
                /\ col.type.cls = entry[1]
                /\ col.type.args =
                      IF entry[1] = "sqltypes.Numeric"
                      THEN <<a.precision, a.scale>>
                      ELSE IF entry[2] THEN <<a.attcolleng>> ELSE <<>>

\* C5 witness: a two-column table with a numeric column and a column with a
\* length, reflected without error.
C5_Witness ==
    /\ result.op = "get_columns"
    /\ result.out.raised = None
    /\ Len(result.out.ret[1]) = 2
    /\ result.out.ret[1][1].type = [cls |-> "sqltypes.Numeric",
                                    args |-> <<38, 0>>]
    /\ result.out.ret[1][2].type = [cls |-> "sqltypes.NVARCHAR",
                                    args |-> <<20>>]

====
